---- MODULE Spec2Model ----
(***************************************************************************)
(* Priority search on a kd-tree (kd_pr_search.cpp of ann_1.1_char_fast).   *)
(*                                                                         *)
(* The tree (points, dimension, root box, nodes) is built once by the      *)
(* tree builder and only read by queries.  A query runs annkPriSearch:     *)
(* it fills a per-call ANNprTempStore, seeds the box queue with the root,  *)
(* and loops: extract the closest box, test for termination, search the    *)
(* node.  A splitting node enqueues its farther child and continues with   *)
(* the closer one; a leaf scans its bucket.  Distances are squared and,    *)
(* the coordinates being chars, integers.                                  *)
(*                                                                         *)
(* A coordinate vector is kept by its leading coordinates: every further   *)
(* coordinate, up to the dimension of the space, is 0.  The flat point     *)
(* array holds the points one after the other, dim coordinates each.       *)
(*                                                                         *)
(* Node pointers are modelled as paths from the root (a sequence over      *)
(* {ANN_LO, ANN_HI}); the recursion of ann_pri_search into the closer      *)
(* child is a tail call and is modelled by the node the thread is at.      *)
(***************************************************************************)
EXTENDS Integers, Sequences, FiniteSets, TLC

\* ---------------------------------------------------------------- bounds
MaxPts == 3            \* largest number of data points in a tree
MaxK == 3              \* largest number of neighbours asked for
MaxBudget == 2         \* largest value given to ANNmaxPtsVisited
MaxQueue == 3          \* most entries held when the queue is driven alone
MaxKey == 2            \* largest key when the queue or the set is driven alone
MaxOps == 4            \* most extractions / inserts when they are driven alone
MaxCalls == 2          \* most calls made one after the other on a thread

\* ------------------------------------------------------ program constants
ScanDim == 128         \* the hard-coded stride and scan width of the leaf
ScanChunks == 4        \* outer loop of the leaf scan
ChunkLen == 32         \* inner loop of the leaf scan
ANN_LO == 1            \* index of the low child / low bound
ANN_HI == 2            \* index of the high child / high bound
ANN_DIST_INF == 1000000000   \* the "infinite" distance
ANN_NULL_IDX == -1     \* the invalid point index
ANN_ALLOW_SELF_MATCH == FALSE  \* configuration: a point may not match itself

\* ------------------------------------------------------------ input sets
Dims == {ScanDim, ScanDim + 1}       \* dimensions a tree is built with
SeedCoords == {<<0, 0>>, <<3, 0>>, <<1, 2>>, <<3, 2>>}  \* leading coordinates of data points
QuerySeeds == {<<0, 0>>, <<1, 2>>, <<2, 1>>, <<5, 3>>}   \* leading coordinates of queries
BucketSizes == {1, 2}                \* bucket sizes a tree is built with
Epsilons == {0, 1}                   \* error bounds eps
UndefKeys == {0, ANN_DIST_INF}       \* values an undefined key read may give
Threads == {1, 2}

SeedLess(a, b) == a[1] < b[1] \/ (a[1] = b[1] /\ a[2] < b[2])

\* point sets as sequences of distinct seeds in increasing order
SeedSeqs(n) ==
    {s \in [1..n -> SeedCoords] : \A i \in 1..(n - 1) : SeedLess(s[i], s[i + 1])}

\* ------------------------------------------------------------- the tree
\* zero-based read of an array held as a sequence
At(a, i) == a[i + 1]

\* coordinate d (from 0) of a vector kept by its leading coordinates
VAt(v, d) == IF d < Len(v) THEN v[d + 1] ELSE 0

\* the coordinate at offset i (from 0) of the flat array of the points P,
\* which holds D coordinates for each point
ReadPts(P, D, i) == VAt(P[(i \div D) + 1], i % D)

\* coordinate d of point idx as the tree builder addresses it
Coord(P, D, idx, d) == ReadPts(P, D, idx * D + d)

SetMin(S) == CHOOSE x \in S : \A y \in S : x <= y
SetMax(S) == CHOOSE x \in S : \A y \in S : x >= y
Range(s) == {s[i] : i \in 1..Len(s)}

\* a leaf node holding a bucket of point indices
LeafNode(b) ==
    [isLeaf |-> TRUE, n_pts |-> Len(b), bkt |-> b,
     cut_dim |-> 0, cut_val |-> 0, cd_bnds |-> <<0, 0>>, child |-> <<>>]

\* the leaf that stands for an empty subtree
KD_TRIVIAL == LeafNode(<<>>)

\* a splitting node
SplitNode(cd, cv, lv, hv, lc, hc) ==
    [isLeaf |-> FALSE, n_pts |-> 0, bkt |-> <<>>,
     cut_dim |-> cd, cut_val |-> cv, cd_bnds |-> <<lv, hv>>, child |-> <<lc, hc>>]

\* smallest rectangle enclosing the points (all zero for no points)
EnclRectLo(P, D, n) ==
    IF n = 0 THEN <<>>
    ELSE [d \in 1..Len(P[1]) |-> SetMin({Coord(P, D, i, d - 1) : i \in 0..(n - 1)})]
EnclRectHi(P, D, n) ==
    IF n = 0 THEN <<>>
    ELSE [d \in 1..Len(P[1]) |-> SetMax({Coord(P, D, i, d - 1) : i \in 0..(n - 1)})]

RECURSIVE SortByCoord(_, _, _, _)
\* the indices ordered by their coordinate along cd (then by index)
SortByCoord(P, D, idxs, cd) ==
    IF idxs = {} THEN <<>>
    ELSE LET m == CHOOSE i \in idxs : \A j \in idxs :
                     \/ Coord(P, D, i, cd) < Coord(P, D, j, cd)
                     \/ (Coord(P, D, i, cd) = Coord(P, D, j, cd) /\ i <= j)
         IN <<m>> \o SortByCoord(P, D, idxs \ {m}, cd)

\* spread of the points along dimension d
Spread(P, D, idxs, d) ==
    SetMax({Coord(P, D, i, d) : i \in idxs}) - SetMin({Coord(P, D, i, d) : i \in idxs})

\* first dimension along which the cell [lo, hi] is longest
LongestSide(lo, hi, D) ==
    SetMin({d \in 0..(D - 1) :
               \A e \in 0..(D - 1) : VAt(hi, d) - VAt(lo, d) >= VAt(hi, e) - VAt(lo, e)})

\* first dimension along which the points spread most
MaxSpreadDim(P, D, idxs) ==
    SetMin({d \in 0..(D - 1) :
               \A e \in 0..(D - 1) : Spread(P, D, idxs, d) >= Spread(P, D, idxs, e)})

RECURSIVE rkd_tree(_, _, _, _, _, _)
\* The tree over the points idxs in the cell [lo, hi].  The longest side of
\* the cell is cut in the middle while that side is at least 2 long (a side
\* may then hold no point: KD_TRIVIAL); otherwise the cut is the median
\* along the dimension of largest spread.
rkd_tree(P, D, idxs, bsp, lo, hi) ==
    LET n == Len(idxs)
        S == Range(idxs)
        side(d) == VAt(hi, d) - VAt(lo, d)
        ld == LongestSide(lo, hi, D)
    IN  IF n <= bsp THEN (IF n = 0 THEN KD_TRIVIAL ELSE LeafNode(idxs))
        ELSE IF side(ld) >= 2
        THEN LET cv == (VAt(lo, ld) + VAt(hi, ld)) \div 2
                 lp == SelectSeq(idxs, LAMBDA i : Coord(P, D, i, ld) <= cv)
                 hp == SelectSeq(idxs, LAMBDA i : Coord(P, D, i, ld) > cv)
             IN SplitNode(ld, cv, VAt(lo, ld), VAt(hi, ld),
                    rkd_tree(P, D, lp, bsp, lo, [hi EXCEPT ![ld + 1] = cv]),
                    rkd_tree(P, D, hp, bsp, [lo EXCEPT ![ld + 1] = cv], hi))
        ELSE LET cd == MaxSpreadDim(P, D, S)
                 srt == SortByCoord(P, D, S, cd)
                 n_lo == n \div 2
                 cv == (Coord(P, D, srt[n_lo], cd) + Coord(P, D, srt[n_lo + 1], cd)) \div 2
                 lp == SubSeq(srt, 1, n_lo)
                 hp == SubSeq(srt, n_lo + 1, n)
             IN SplitNode(cd, cv, VAt(lo, cd), VAt(hi, cd),
                    rkd_tree(P, D, lp, bsp, lo, [hi EXCEPT ![cd + 1] = cv]),
                    rkd_tree(P, D, hp, bsp, [lo EXCEPT ![cd + 1] = cv], hi))

RECURSIVE NodeAt(_, _)
\* the node a pointer (a path of child indices from the root) refers to
NodeAt(node, path) ==
    IF path = <<>> THEN node ELSE NodeAt(node.child[Head(path)], Tail(path))

RECURSIVE PointsBelow(_)
\* the point indices stored beneath a node
PointsBelow(node) ==
    IF node.isLeaf THEN Range(node.bkt)
    ELSE PointsBelow(node.child[ANN_LO]) \cup PointsBelow(node.child[ANN_HI])

\* ----------------------------------------------------- distance macros
ANN_POW(v) == v * v
ANN_SUM(x, y) == x + y
\* the difference taken the other way round
ANN_DIFF_Swapped(x, y) == x - y

\* ANN_DIFF(x, y) is what replacing a component x of a squared distance by
\* y adds to it: split nodes use it to turn the distance to their box into
\* the "distance to further box", whose component along the cut is
\* cut_diff^2 where the box's was box_diff^2.
ANN_DIFF(x, y) == y - x

RECURSIVE BoxDistRange(_, _, _, _, _)
\* the part of the box distance that dimensions a..b-1 give (the sum is
\* split in halves: the order of an integer sum does not matter)
BoxDistRange(q, lo, hi, a, b) ==
    IF b <= a THEN 0
    ELSE IF b = a + 1
    THEN LET t == IF VAt(q, a) < VAt(lo, a) THEN VAt(lo, a) - VAt(q, a)
                  ELSE IF VAt(q, a) > VAt(hi, a) THEN VAt(q, a) - VAt(hi, a)
                  ELSE 0
         IN  ANN_POW(t)
    ELSE LET m == (a + b) \div 2
         IN  ANN_SUM(BoxDistRange(q, lo, hi, a, m), BoxDistRange(q, lo, hi, m, b))

\* squared distance from q to the box [lo, hi]; 0 for q inside it
annBoxDistance(q, lo, hi, D) == BoxDistRange(q, lo, hi, 0, D)

\* --------------------------------------- ANNmin_k: the k smallest keys
\* mk holds at most k (key, info) pairs in ascending order of key
MkNew(k) == [k |-> k, n |-> 0, mk |-> <<>>]

\* the pairs in ascending order with (kv, inf) put after the keys <= kv
MkSorted(M, kv, inf) ==
    LET pos == Cardinality({i \in 1..M.n : M.mk[i].key <= kv})
    IN  SubSeq(M.mk, 1, pos) \o <<[key |-> kv, info |-> inf]>> \o SubSeq(M.mk, pos + 1, M.n)

\* an insert that keeps the pairs in the order they came while there is room
MkInsertNoOrder(M, kv, inf) ==
    IF M.n < M.k THEN [M EXCEPT !.mk = Append(@, [key |-> kv, info |-> inf]), !.n = @ + 1]
    ELSE M

\* insert: below capacity the pair is added in order; at capacity it takes
\* the place of the largest pair when its key is strictly smaller
MkInsert(M, kv, inf) ==
    LET all == MkSorted(M, kv, inf)
        keep == IF Len(all) <= M.k THEN Len(all) ELSE IF M.k >= 0 THEN M.k ELSE 0
    IN  [M EXCEPT !.mk = SubSeq(all, 1, keep), !.n = keep]

\* the largest key held, infinite below capacity.  A set of capacity 0 is
\* at capacity and holds no key: the value read there is undefined (u).
max_key_or(M, u) ==
    IF M.n = M.k THEN (IF M.k >= 1 THEN M.mk[M.k].key ELSE u) ELSE ANN_DIST_INF
max_key(M) == max_key_or(M, ANN_DIST_INF)

ith_smallest_key(M, i) == IF i < M.n THEN At(M.mk, i).key ELSE ANN_DIST_INF
ith_smallest_info(M, i) == IF i < M.n THEN At(M.mk, i).info ELSE ANN_NULL_IDX

\* ------------------------------------- ANNpr_queue: the queue of boxes
\* pq holds the (key, info) entries in the order they were inserted
PqNew(max) == [max_size |-> max, pq |-> <<>>]
PqInsert(Q, kv, inf) == [Q EXCEPT !.pq = Append(Q.pq, [key |-> kv, info |-> inf])]
non_empty(Q) == Len(Q.pq) > 0

\* a queue that gives its entries back in the order they came
PqOldestPos(Q) == 1

\* position of the entry of smallest key (the oldest of them)
PqMinPos(Q) ==
    SetMin({i \in 1..Len(Q.pq) : \A j \in 1..Len(Q.pq) : Q.pq[i].key <= Q.pq[j].key})

\* extraction of the entry of smallest key: the entry and the queue left
extr_min(Q) ==
    LET i == PqMinPos(Q)
    IN  [kv |-> Q.pq[i].key, inf |-> Q.pq[i].info,
         Q |-> [Q EXCEPT !.pq = SubSeq(Q.pq, 1, i - 1) \o SubSeq(Q.pq, i + 1, Len(Q.pq))]]

\* ---------------------------------------------------------------- state
VARIABLES
    dim,                \* the tree: dimension of the space
    n_pts,              \* the tree: number of points
    pts,                \* the tree: the flat coordinate array, point by point
    bnd_box_lo,         \* the tree: root bounding box, low corner
    bnd_box_hi,         \* the tree: root bounding box, high corner
    root,               \* the tree: the root node
    ANNmaxPtsVisited,   \* global: budget of points to visit (0 = none)
    call,               \* per thread: the frame of its annkPriSearch call
    store,              \* per store slot: the ANNprTempStore of a call
    hist                \* per thread: what the call has done so far

treeVars == <<dim, n_pts, pts, bnd_box_lo, bnd_box_hi, root>>
vars == <<dim, n_pts, pts, bnd_box_lo, bnd_box_hi, root, ANNmaxPtsVisited,
          call, store, hist>>

\* an output cell the call has not written
Unwritten == ANN_NULL_IDX - 1

\* a store that is not allocated
NoStore ==
    [ANNprMaxErr |-> 0, ANNprDim |-> 0, ANNprQ |-> <<>>, ANNprPts |-> "null",
     ANNptsVisited |-> 0, ANNprPointMK |-> MkNew(0), ANNprBoxPQ |-> PqNew(0)]

\* the record of a call: points scanned, offers to the set, keys
\* extracted, counters, the extractions (ext), the enqueues of farther
\* children (enq), the nodes handled, why the loop ended (stop), the set
\* as the last leaf found it (mk_in), and the calls made so far on the
\* thread with the result of the one before (calls, before)
NoHist ==
    [scanned |-> {}, offered |-> <<>>, extracted |-> <<>>,
     pq_ins |-> 0, pq_ext |-> 0, low_ins |-> 0, visits |-> 0, writes |-> 0,
     amid |-> FALSE,
     ext |-> <<>>, enq |-> <<>>, handled |-> <<>>, stop |-> "none",
     mk_in |-> MkNew(0), calls |-> 1, before |-> <<>>]

\* the frame of a call that has not begun
NewCall(q, k, eps) ==
    [pc |-> "start", q |-> q, k |-> k, eps |-> eps, box_dist |-> 0, np |-> <<>>,
     dd |-> [i \in 1..k |-> Unwritten], nn_idx |-> [i \in 1..k |-> Unwritten]]

IdleCall ==
    [pc |-> "idle", q |-> <<>>, k |-> 0, eps |-> 0, box_dist |-> 0, np |-> <<>>,
     dd |-> <<>>, nn_idx |-> <<>>]

\* one store for all calls, as the file-level variables it replaced were
StoreOfShared(t) == 1

\* the store a thread's call works on: its own local
StoreOf(t) == t

\* ----------------------------------------------------- annkPriSearch
\* a set-up that puts the root into the queue twice
PriSearchStartRootTwice(fr, st, hs) ==
    LET bd == annBoxDistance(fr.q, bnd_box_lo, bnd_box_hi, dim)
    IN  [fr |-> [fr EXCEPT !.pc = "loop", !.box_dist = bd],
         st |-> [ANNprMaxErr |-> ANN_POW(1 + fr.eps),
                 ANNprDim |-> dim,
                 ANNprQ |-> fr.q,
                 ANNprPts |-> "pts",
                 ANNptsVisited |-> 0,
                 ANNprPointMK |-> MkNew(fr.k),
                 ANNprBoxPQ |-> PqInsert(PqInsert(PqNew(n_pts), bd, <<>>), bd, <<>>)],
         hs |-> [hs EXCEPT !.pq_ins = @ + 2]]

\* a set-up that goes on counting where the store's memory left off
PriSearchStartKeepCount(fr, st, hs) ==
    LET bd == annBoxDistance(fr.q, bnd_box_lo, bnd_box_hi, dim)
    IN  [fr |-> [fr EXCEPT !.pc = "loop", !.box_dist = bd],
         st |-> [ANNprMaxErr |-> ANN_POW(1 + fr.eps),
                 ANNprDim |-> dim,
                 ANNprQ |-> fr.q,
                 ANNprPts |-> "pts",
                 ANNptsVisited |-> st.ANNptsVisited,
                 ANNprPointMK |-> MkNew(fr.k),
                 ANNprBoxPQ |-> PqInsert(PqNew(n_pts), bd, <<>>)],
         hs |-> [hs EXCEPT !.pq_ins = @ + 1]]

\* set-up: fill the store, create the set and the queue, enqueue the root
PriSearchStart(fr, st, hs) ==
    LET bd == annBoxDistance(fr.q, bnd_box_lo, bnd_box_hi, dim)
    IN  [fr |-> [fr EXCEPT !.pc = "loop", !.box_dist = bd],
         st |-> [ANNprMaxErr |-> ANN_POW(1 + fr.eps),
                 ANNprDim |-> dim,
                 ANNprQ |-> fr.q,
                 ANNprPts |-> "pts",
                 ANNptsVisited |-> 0,
                 ANNprPointMK |-> MkNew(fr.k),
                 ANNprBoxPQ |-> PqInsert(PqNew(n_pts), bd, <<>>)],
         hs |-> [hs EXCEPT !.pq_ins = @ + 1]]

\* a loop condition that stops as soon as the budget is reached
LoopCondAtBudget(st) ==
    /\ non_empty(st.ANNprBoxPQ)
    /\ ~(ANNmaxPtsVisited # 0 /\ st.ANNptsVisited >= ANNmaxPtsVisited)

\* a loop condition that forgets the budget
LoopCondNoBudget(st) == non_empty(st.ANNprBoxPQ)

\* the condition of the while loop
LoopCond(st) ==
    /\ non_empty(st.ANNprBoxPQ)
    /\ ~(ANNmaxPtsVisited # 0 /\ st.ANNptsVisited > ANNmaxPtsVisited)

\* the termination test on the extracted box
TermTest(st, bd, u) == bd * st.ANNprMaxErr >= max_key_or(st.ANNprPointMK, u)

\* one evaluation of the loop: leave it, or extract the closest box and
\* either break or go on to search the node
PriSearchLoop(fr, st, hs, u) ==
    IF ~LoopCond(st)
    THEN [fr |-> [fr EXCEPT !.pc = "out"], st |-> st, hs |-> [hs EXCEPT !.stop = "cond"]]
    ELSE LET e == extr_min(st.ANNprBoxPQ)
             st1 == [st EXCEPT !.ANNprBoxPQ = e.Q]
             brk == TermTest(st1, e.kv, u)
             hs1 == [hs EXCEPT !.pq_ext = @ + 1, !.extracted = Append(@, e.kv),
                               !.ext = Append(@, [np |-> e.inf, key |-> e.kv,
                                                  cnt |-> st.ANNptsVisited, pass |-> ~brk]),
                               !.stop = IF brk THEN "test" ELSE @]
         IN  [fr |-> [fr EXCEPT !.box_dist = e.kv, !.np = e.inf,
                                !.pc = IF brk THEN "out" ELSE "search"],
              st |-> st1, hs |-> hs1]

\* number of entries the final loop copies out
OutCount(fr, st) == fr.k

\* copy the k smallest out and delete the set and the queue
PriSearchOut(fr, st, hs) ==
    LET m == OutCount(fr, st)
    IN  [fr |-> [fr EXCEPT !.pc = "done",
                    !.dd = [i \in 1..Len(fr.dd) |->
                              IF i <= m THEN ith_smallest_key(st.ANNprPointMK, i - 1)
                              ELSE fr.dd[i]],
                    !.nn_idx = [i \in 1..Len(fr.nn_idx) |->
                              IF i <= m THEN ith_smallest_info(st.ANNprPointMK, i - 1)
                              ELSE fr.nn_idx[i]]],
         st |-> [st EXCEPT !.ANNprPointMK = MkNew(0), !.ANNprBoxPQ = PqNew(0)],
         hs |-> [hs EXCEPT !.writes = @ + (IF m > 0 THEN m ELSE 0)]]

\* ------------------------------------------- ANNkd_split::ann_pri_search
\* a distance to the farther child that forgets the distance to the node
NewDistReset(node, Q, bd) ==
    LET cut_diff == VAt(Q, node.cut_dim) - node.cut_val
    IN  ANN_POW(cut_diff)

\* a distance to the farther child that takes the query to lie inside the
\* node's bounds along the cut
NewDistFromCut(node, Q, bd) ==
    LET cut_diff == VAt(Q, node.cut_dim) - node.cut_val
    IN  ANN_SUM(bd, ANN_POW(cut_diff))

\* distance to the child visited later, from the side the query is on
NewDist(node, Q, bd) ==
    LET cut_diff == VAt(Q, node.cut_dim) - node.cut_val
        raw == IF cut_diff < 0
               THEN node.cd_bnds[ANN_LO] - VAt(Q, node.cut_dim)
               ELSE VAt(Q, node.cut_dim) - node.cd_bnds[ANN_HI]
        box_diff == IF raw < 0 THEN 0 ELSE raw
    IN  ANN_SUM(bd, ANN_DIFF(ANN_POW(box_diff), ANN_POW(cut_diff)))

\* a split that also puts off the low child whatever the query's side
FarSideLow(node, Q) == ANN_LO

\* a choice that takes a query on the cutting plane to the low child
NearSideLowOnTie(node, Q) ==
    IF VAt(Q, node.cut_dim) - node.cut_val <= 0 THEN ANN_LO ELSE ANN_HI

\* the child the search continues with, and the one that is put off
NearSide(node, Q) == IF VAt(Q, node.cut_dim) - node.cut_val < 0 THEN ANN_LO ELSE ANN_HI
FarSide(node, Q) == IF NearSide(node, Q) = ANN_LO THEN ANN_HI ELSE ANN_LO

\* a test that lets every child be enqueued
NonTrivialAlways(child) == TRUE

\* is a child enqueued: only if it is not the trivial leaf
NonTrivial(child) == child # KD_TRIVIAL

\* search a splitting node: enqueue the farther child unless it is
\* trivial, continue with the closer child at the same box distance
SplitSearch(fr, st, hs) ==
    LET node == NodeAt(root, fr.np)
        near == NearSide(node, st.ANNprQ)
        far == FarSide(node, st.ANNprQ)
        new_dist == NewDist(node, st.ANNprQ, fr.box_dist)
        enq == NonTrivial(node.child[far])
    IN  [fr |-> [fr EXCEPT !.np = Append(@, near)],
         st |-> IF enq
                THEN [st EXCEPT !.ANNprBoxPQ = PqInsert(@, new_dist, Append(fr.np, far))]
                ELSE st,
         hs |-> [hs EXCEPT !.visits = @ + 1, !.pq_ins = @ + (IF enq THEN 1 ELSE 0),
                           !.low_ins = @ + (IF enq /\ new_dist < fr.box_dist THEN 1 ELSE 0),
                           !.handled = Append(@, [np |-> fr.np, box_dist |-> fr.box_dist,
                                                  leaf |-> FALSE]),
                           !.enq = IF enq
                                   THEN Append(@, [np |-> fr.np, far |-> Append(fr.np, far),
                                                   box_dist |-> fr.box_dist,
                                                   new_dist |-> new_dist])
                                   ELSE @]]

\* -------------------------------------------- ANNkd_leaf::ann_pri_search
\* first coordinate of bucket point idx in the flat array
PointBase(idx) == idx * ScanDim

RECURSIVE ChunkDist(_, _, _, _, _)
\* the inner loop: ChunkLen squared differences from offset off on
ChunkDist(P, Q, base, off, d2) ==
    IF d2 >= ChunkLen THEN 0
    ELSE LET t == VAt(Q, off + d2) - ReadPts(P, dim, base + off + d2)
         IN  ANN_SUM(ANN_POW(t), ChunkDist(P, Q, base, off, d2 + 1))

RECURSIVE ScanPointStrict(_, _, _, _, _, _)
\* an outer loop that also stops when the distance has reached min_dist
ScanPointStrict(P, Q, base, d, dist, min_dist) ==
    IF d >= ScanChunks THEN [d |-> d, dist |-> dist]
    ELSE LET nd == ANN_SUM(dist, ChunkDist(P, Q, base, d * ChunkLen, 0))
         IN  IF nd >= min_dist THEN [d |-> d, dist |-> nd]
             ELSE ScanPointStrict(P, Q, base, d + 1, nd, min_dist)

RECURSIVE ScanPoint(_, _, _, _, _, _)
\* the outer loop from chunk d on: the chunk index it stops at and the
\* distance accumulated; it stops early once the distance exceeds min_dist
ScanPoint(P, Q, base, d, dist, min_dist) ==
    IF d >= ScanChunks THEN [d |-> d, dist |-> dist]
    ELSE LET nd == ANN_SUM(dist, ChunkDist(P, Q, base, d * ChunkLen, 0))
         IN  IF nd > min_dist THEN [d |-> d, dist |-> nd]
             ELSE ScanPoint(P, Q, base, d + 1, nd, min_dist)

\* is a point scanned to the end put into the set
AmongBest(r) == r.d >= ScanChunks

\* what follows the scan r of bucket point idx: the insert if the point
\* was scanned to the end, the new bound, and the offer made
LeafPoint(idx, r, M, min_dist, u, log) ==
    LET ins == AmongBest(r)
        M1 == IF ins THEN MkInsert(M, r.dist, idx) ELSE M
        md1 == IF ins THEN max_key_or(M1, u) ELSE min_dist
    IN  [M |-> M1, min_dist |-> md1,
         log |-> Append(log, [idx |-> idx, dist |-> r.dist, ins |-> ins,
                              bound |-> min_dist, d |-> r.d])]

RECURSIVE LeafLoop(_, _, _, _, _, _, _)
\* the bucket loop from position i on: the set and the offers made (each
\* iteration's scan and outcome are computed once, then the loop goes on)
LeafLoop(node, i, M, min_dist, Q, u, log) ==
    IF i >= node.n_pts THEN [M |-> M, log |-> log]
    ELSE LET idx == At(node.bkt, i)
         IN  CHOOSE res \in
                 {LeafLoop(node, i + 1, v.M, v.min_dist, Q, u, v.log) :
                     v \in {LeafPoint(idx, r, M, min_dist, u, log) :
                               r \in {ScanPoint(pts, Q, PointBase(idx), 0, 0, min_dist)}}} :
                 TRUE

\* search a leaf: scan its bucket, count its points as visited (r is the
\* outcome of the bucket loop, computed once)
LeafSearch(fr, st, hs, u) ==
    LET node == NodeAt(root, fr.np)
        min_dist == max_key_or(st.ANNprPointMK, u)
    IN  CHOOSE res \in
            {[fr |-> [fr EXCEPT !.pc = "loop"],
              st |-> [st EXCEPT !.ANNprPointMK = r.M,
                                !.ANNptsVisited = @ + node.n_pts],
              hs |-> [hs EXCEPT !.visits = @ + 1,
                                !.scanned = @ \cup Range(node.bkt),
                                !.offered = @ \o r.log,
                                !.handled = Append(@, [np |-> fr.np, box_dist |-> fr.box_dist,
                                                       leaf |-> TRUE]),
                                !.mk_in = st.ANNprPointMK]] :
                r \in {LeafLoop(node, 0, st.ANNprPointMK, min_dist, st.ANNprQ, u, <<>>)}} :
            TRUE

\* -------------------------------------------------------------- actions
\* the values an undefined read of the largest key may give in this call
UndefFor(t) == IF call[t].k >= 1 THEN {ANN_DIST_INF} ELSE UndefKeys

\* another thread's call has begun and has not ended
OtherAmid(t) == \E o \in Threads \ {t} : call[o].pc \in {"loop", "search", "out"}

Apply(t, step) ==
    \E r \in {step} :
        /\ call' = [call EXCEPT ![t] = r.fr]
        /\ store' = [store EXCEPT ![StoreOf(t)] = r.st]
        /\ hist' = [hist EXCEPT ![t] = [r.hs EXCEPT !.amid = @ \/ OtherAmid(t)]]
        /\ UNCHANGED <<treeVars, ANNmaxPtsVisited>>

Start(t) ==
    /\ call[t].pc = "start"
    /\ Apply(t, PriSearchStart(call[t], store[StoreOf(t)], hist[t]))

Loop(t) ==
    /\ call[t].pc = "loop"
    /\ \E u \in UndefFor(t) :
          Apply(t, PriSearchLoop(call[t], store[StoreOf(t)], hist[t], u))

Split(t) ==
    /\ call[t].pc = "search"
    /\ ~NodeAt(root, call[t].np).isLeaf
    /\ Apply(t, SplitSearch(call[t], store[StoreOf(t)], hist[t]))

Leaf(t) ==
    /\ call[t].pc = "search"
    /\ NodeAt(root, call[t].np).isLeaf
    /\ \E u \in UndefFor(t) :
          Apply(t, LeafSearch(call[t], store[StoreOf(t)], hist[t], u))

Out(t) ==
    /\ call[t].pc = "out"
    /\ Apply(t, PriSearchOut(call[t], store[StoreOf(t)], hist[t]))

Next == \E t \in Threads : Start(t) \/ Loop(t) \/ Split(t) \/ Leaf(t) \/ Out(t)

\* ---------------------------------------------------------------- Init
\* the tree the builder makes of the seeds
TreeInit(D, seeds, bsp) ==
    LET P == seeds
        n == Len(seeds)
        lo == EnclRectLo(P, D, n)
        hi == EnclRectHi(P, D, n)
    IN  /\ dim = D
        /\ n_pts = n
        /\ pts = P
        /\ bnd_box_lo = lo
        /\ bnd_box_hi = hi
        /\ root = rkd_tree(P, D, [i \in 1..n |-> i - 1], bsp, lo, hi)

\* one query on one thread
Init ==
    /\ \E D \in Dims, n \in 0..MaxPts, bsp \in BucketSizes :
          \E seeds \in SeedSeqs(n) : TreeInit(D, seeds, bsp)
    /\ ANNmaxPtsVisited \in 0..MaxBudget
    /\ \E qs \in QuerySeeds, k \in 0..MaxK, eps \in Epsilons :
          call = [t \in Threads |->
                    IF t = 1 THEN NewCall(qs, k, eps) ELSE IdleCall]
    /\ store = [t \in Threads |-> NoStore]
    /\ hist = [t \in Threads |-> NoHist]

Spec == Init /\ [][Next]_vars

TypeOK ==
    /\ \A t \in Threads : call[t].pc \in {"idle", "start", "loop", "search", "out", "done"}
    /\ dim \in Dims
    /\ n_pts \in 0..(MaxPts + 1)

\* ------------------------------------------------- reference quantities
RECURSIVE SqDistRange(_, _, _, _)
\* the part of the squared distance from q to point idx that dimensions
\* a..b-1 of the tree's space give
SqDistRange(q, idx, a, b) ==
    IF b <= a THEN 0
    ELSE IF b = a + 1
    THEN (VAt(q, a) - Coord(pts, dim, idx, a)) * (VAt(q, a) - Coord(pts, dim, idx, a))
    ELSE LET m == (a + b) \div 2
         IN  SqDistRange(q, idx, a, m) + SqDistRange(q, idx, m, b)

\* squared Euclidean distance from q to data point idx, by brute force
TrueDist(q, idx) == SqDistRange(q, idx, 0, dim)

AllPoints == 0..(n_pts - 1)

\* the i-th smallest (i from 1) squared distance from q to the data points
IthTrueDist(q, i) ==
    CHOOSE d \in {TrueDist(q, p) : p \in AllPoints} :
        /\ Cardinality({p \in AllPoints : TrueDist(q, p) < d}) < i
        /\ Cardinality({p \in AllPoints : TrueDist(q, p) <= d}) >= i

Done(t) == call[t].pc = "done"

\* ------------------------------------------------------------- claim C1
\* C1: with eps = 0 and no budget, a query for k >= 1 neighbours on a tree
\* of at least k points returns the k smallest squared distances from the
\* query to the data points, as brute force computes them.
C1_Exactness ==
    \A t \in Threads :
        (Done(t) /\ call[t].k >= 1 /\ call[t].k <= n_pts
            /\ call[t].eps = 0 /\ ANNmaxPtsVisited = 0)
        => \A i \in 1..call[t].k : call[t].dd[i] = IthTrueDist(call[t].q, i)

\* the same for trees whose dimension is the scan width of the leaf
C1_ExactnessAtScanDim == dim = ScanDim => C1_Exactness

\* ------------------------------------------------------------- claim C2
\* the smaller of two numbers
Min2(a, b) == IF a <= b THEN a ELSE b

\* C2: with no budget, when the loop has ended every data point that was
\* never scanned has squared distance d with d * (1+eps)^2 >= the k-th
\* returned distance, and for every rank i <= k the i-th returned distance
\* is at most (1+eps)^2 times the true i-th smallest squared distance.
C2_EpsilonBound ==
    \A t \in Threads :
        (Done(t) /\ call[t].k >= 1 /\ ANNmaxPtsVisited = 0)
        => /\ \A p \in AllPoints \ hist[t].scanned :
                 TrueDist(call[t].q, p) * ANN_POW(1 + call[t].eps) >= call[t].dd[call[t].k]
           /\ \A i \in 1..Min2(call[t].k, n_pts) :
                 call[t].dd[i] <= ANN_POW(1 + call[t].eps) * IthTrueDist(call[t].q, i)

\* the same for trees whose dimension is the scan width of the leaf
C2_EpsilonBoundAtScanDim == dim = ScanDim => C2_EpsilonBound

\* a query with eps > 0 that ended leaving a data point unscanned
C2_SomeUnscanned ==
    \E t \in Threads :
        /\ Done(t) /\ call[t].k >= 1 /\ ANNmaxPtsVisited = 0 /\ call[t].eps > 0
        /\ AllPoints \ hist[t].scanned # {}
        /\ \E i \in 1..Min2(call[t].k, n_pts) : call[t].dd[i] > IthTrueDist(call[t].q, i)

\* ------------------------------------------------------------- claim C4
\* C4: a query with k <= 0, or on an empty tree, fails before any step of
\* the traversal: it inserts nothing into the box queue and extracts
\* nothing from it, visits no node and writes no output cell.
C4_InvalidArgumentBeforeTraversal ==
    \A t \in Threads :
        (call[t].pc # "idle" /\ (call[t].k <= 0 \/ n_pts = 0))
        => /\ hist[t].pq_ins = 0 /\ hist[t].pq_ext = 0
           /\ hist[t].visits = 0 /\ hist[t].writes = 0

\* ------------------------------------------------------------- claim C6
\* C6: with eps = 0 and no budget a query for k neighbours on a tree of
\* n < k points returns k entries: first all n data points with their
\* squared distances in ascending order, then k - n times the sentinel
\* (infinite distance, invalid index).
C6_PaddedNotTruncated ==
    \A t \in Threads :
        (Done(t) /\ call[t].k >= 1 /\ n_pts < call[t].k
            /\ call[t].eps = 0 /\ ANNmaxPtsVisited = 0)
        => /\ Len(call[t].dd) = call[t].k /\ Len(call[t].nn_idx) = call[t].k
           /\ {call[t].nn_idx[i] : i \in 1..n_pts} = AllPoints
           /\ \A i \in 1..n_pts : call[t].dd[i] = TrueDist(call[t].q, call[t].nn_idx[i])
           /\ \A i \in 1..(n_pts - 1) : call[t].dd[i] <= call[t].dd[i + 1]
           /\ \A i \in (n_pts + 1)..call[t].k :
                 call[t].dd[i] = ANN_DIST_INF /\ call[t].nn_idx[i] = ANN_NULL_IDX

\* the same for trees whose dimension is the scan width of the leaf
C6_PaddedAtScanDim == dim = ScanDim => C6_PaddedNotTruncated

\* ------------------------------------------------------------- claim C7
\* C7: with self-match disabled, on a tree whose dimension is the scan
\* width of the leaf, a query for k >= 1 neighbours never puts a data point
\* it coincides with (squared distance 0) into the set of the k best, and
\* with k = 1 on two points, one of them the query, returns the other.
C7_SelfMatchExcluded ==
    (~ANN_ALLOW_SELF_MATCH /\ dim = ScanDim) =>
    \A t \in Threads : call[t].k >= 1 =>
        /\ \A j \in 1..Len(hist[t].offered) :
              TrueDist(call[t].q, hist[t].offered[j].idx) = 0 => ~hist[t].offered[j].ins
        /\ (Done(t) /\ call[t].k = 1 /\ n_pts = 2
               /\ \E p \in AllPoints : TrueDist(call[t].q, p) = 0)
           => /\ call[t].nn_idx[1] \in AllPoints
              /\ TrueDist(call[t].q, call[t].nn_idx[1]) # 0

\* ------------------------------------------------------------- claim C8
\* C8: for every dimension of the tree, the distance the leaf computes (in
\* a query for k >= 1 neighbours) for a bucket point it scans to the end is
\* the sum of the squared coordinate differences over the dim axes of the
\* point and the query, and the coordinates of point idx are read from
\* offset idx * dim on.
C8_ScanBoundToDim ==
    \A t \in Threads : call[t].k >= 1 => \A j \in 1..Len(hist[t].offered) :
        LET e == hist[t].offered[j]
        IN  /\ e.ins => e.dist = TrueDist(call[t].q, e.idx)
            /\ PointBase(e.idx) = e.idx * dim

\* the same for trees whose dimension is the scan width of the leaf
C8_ScanAtScanDim == dim = ScanDim => C8_ScanBoundToDim

\* ------------------------------------------------------------- claim C5
RECURSIVE LargestBucket(_)
\* size of the largest bucket beneath a node
LargestBucket(node) ==
    IF node.isLeaf THEN node.n_pts
    ELSE LET a == LargestBucket(node.child[ANN_LO])
             b == LargestBucket(node.child[ANN_HI])
         IN  IF a >= b THEN a ELSE b

\* every output cell has been written
AllWritten(t) ==
    /\ Len(call[t].dd) = call[t].k /\ Len(call[t].nn_idx) = call[t].k
    /\ \A i \in 1..call[t].k : call[t].dd[i] # Unwritten /\ call[t].nn_idx[i] # Unwritten

\* a budget is set and is smaller than the number of data points
BudgetCase(t) ==
    call[t].pc # "idle" /\ 0 < ANNmaxPtsVisited /\ ANNmaxPtsVisited < n_pts

\* C5 as stated: with a budget B, 0 < B < number of data points, the loop
\* stops before every data point has been visited, and the query returns
\* exactly k entries.
C5_BudgetStopsEarly ==
    \A t \in Threads :
        (Done(t) /\ BudgetCase(t) /\ call[t].k >= 1)
        => hist[t].scanned # AllPoints /\ AllWritten(t)

\* C5 as amended: with a budget B, 0 < B < number of data points, no node
\* is searched once more than B points have been visited, so the loop ends
\* with at most B plus one bucket of points visited (which may be all of
\* them), and the query returns exactly k entries.
C5_BudgetBestEffort ==
    \A t \in Threads :
        BudgetCase(t) =>
            /\ call[t].pc = "search" => store[StoreOf(t)].ANNptsVisited <= ANNmaxPtsVisited
            /\ call[t].pc \in {"loop", "search", "out"}
                  => store[StoreOf(t)].ANNptsVisited <= ANNmaxPtsVisited + LargestBucket(root)
            /\ Done(t) => AllWritten(t) /\ hist[t].writes = call[t].k

\* the budget has ended a loop that had boxes left and points unvisited
C5_BudgetStopped ==
    \E t \in Threads :
        /\ BudgetCase(t) /\ call[t].k >= 1 /\ call[t].pc = "out"
        /\ store[StoreOf(t)].ANNptsVisited > ANNmaxPtsVisited
        /\ non_empty(store[StoreOf(t)].ANNprBoxPQ)
        /\ hist[t].scanned # AllPoints

\* ----------------------------------- the queue and the set driven alone
\* no tree and no call: only store[1] and hist[1] are used
AloneBase ==
    /\ dim = ScanDim /\ n_pts = 0 /\ pts = <<>>
    /\ bnd_box_lo = <<>> /\ bnd_box_hi = <<>> /\ root = KD_TRIVIAL
    /\ ANNmaxPtsVisited = 0
    /\ call = [t \in Threads |-> IdleCall]
    /\ hist = [t \in Threads |-> NoHist]

AloneKeep == UNCHANGED <<treeVars, ANNmaxPtsVisited, call>>

\* the key of the last extraction, if any
LastExtracted(hs) == hs.extracted[Len(hs.extracted)]

InitPQ ==
    /\ AloneBase
    /\ store = [t \in Threads |->
                  IF t = 1 THEN [NoStore EXCEPT !.ANNprBoxPQ = PqNew(MaxQueue)] ELSE NoStore]

\* insert(kv, inf) on the queue
QInsert ==
    /\ Len(store[1].ANNprBoxPQ.pq) < MaxQueue
    /\ \E kv \in 0..MaxKey, inf \in {<<ANN_LO>>, <<ANN_HI>>} :
          /\ store' = [store EXCEPT ![1].ANNprBoxPQ = PqInsert(@, kv, inf)]
          /\ hist' = [hist EXCEPT ![1].pq_ins = @ + 1,
                         ![1].low_ins = @ + (IF hist[1].extracted # <<>>
                                                /\ kv < LastExtracted(hist[1])
                                             THEN 1 ELSE 0)]
    /\ AloneKeep

\* extr_min on the queue
QExtract ==
    /\ non_empty(store[1].ANNprBoxPQ)
    /\ Len(hist[1].extracted) < MaxOps
    /\ LET e == extr_min(store[1].ANNprBoxPQ)
       IN  /\ store' = [store EXCEPT ![1].ANNprBoxPQ = e.Q]
           /\ hist' = [hist EXCEPT ![1].pq_ext = @ + 1, ![1].extracted = Append(@, e.kv)]
    /\ AloneKeep

NextPQ == QInsert \/ QExtract

SpecPQ == InitPQ /\ [][NextPQ]_vars

\* the keys of a sequence never decrease
NonDecreasing(keys) == \A i \in 1..(Len(keys) - 1) : keys[i] <= keys[i + 1]

\* ------------------------------------------------------------- claim C9
\* C9 as stated: for any sequence of inserts and extractions on the box
\* queue, the priorities of successive extractions never decrease.
C9_QueueOrderAnySequence == NonDecreasing(hist[1].extracted)

\* C9 as amended: the priorities of successive extractions never decrease
\* as long as no entry is inserted with a priority below that of the last
\* extraction before it.
C9_QueueOrderMonotoneInserts ==
    hist[1].low_ins = 0 => NonDecreasing(hist[1].extracted)

\* extractions interleaved with inserts, none below the last extraction,
\* that left entries of different keys in the queue
C9_InterleavedOps ==
    /\ hist[1].low_ins = 0 /\ Len(hist[1].extracted) >= 3
    /\ hist[1].pq_ins > hist[1].pq_ext
    /\ hist[1].extracted[1] < hist[1].extracted[3]
    /\ Len(store[1].ANNprBoxPQ.pq) >= 2
    /\ store[1].ANNprBoxPQ.pq[1].key > store[1].ANNprBoxPQ.pq[2].key

InitMK ==
    /\ AloneBase
    /\ \E k \in 1..MaxK :
          store = [t \in Threads |->
                     IF t = 1 THEN [NoStore EXCEPT !.ANNprPointMK = MkNew(k)] ELSE NoStore]

\* insert(kv, inf) on the set; inf numbers the inserts
SetInsert ==
    /\ Len(hist[1].offered) < MaxOps
    /\ \E kv \in 0..MaxKey :
          /\ store' = [store EXCEPT
                          ![1].ANNprPointMK = MkInsert(@, kv, Len(hist[1].offered))]
          /\ hist' = [hist EXCEPT ![1].offered =
                          Append(@, [idx |-> Len(hist[1].offered), dist |-> kv, ins |-> TRUE])]
    /\ AloneKeep

NextMK == SetInsert

SpecMK == InitMK /\ [][NextMK]_vars

\* the keys inserted so far, in the order of the inserts
InsertedKeys(hs) == [i \in 1..Len(hs.offered) |-> hs.offered[i].dist]

\* the k-th smallest (k from 1) of at least k keys
KthSmallestKey(keys, k) ==
    CHOOSE v \in Range(keys) :
        /\ Cardinality({i \in 1..Len(keys) : keys[i] < v}) < k
        /\ Cardinality({i \in 1..Len(keys) : keys[i] <= v}) >= k

\* ------------------------------------------------------------ claim C10
\* C10: after any sequence of inserts into a set of capacity k >= 1,
\* max_key() is the k-th smallest key inserted so far, or infinite after
\* fewer than k inserts, and ith_smallest(0..k-1) ascend in key.
C10_BoundedSetCorrect ==
    LET M == store[1].ANNprPointMK
        keys == InsertedKeys(hist[1])
    IN  M.k >= 1 =>
        /\ max_key(M) = IF Len(keys) < M.k THEN ANN_DIST_INF
                        ELSE KthSmallestKey(keys, M.k)
        /\ \A i \in 0..(M.k - 2) : ith_smallest_key(M, i) <= ith_smallest_key(M, i + 1)

\* a set of capacity >= 2 that is full, has turned a larger key out and
\* has refused a key, after inserts that came in no order
C10_FullAndReplaced ==
    LET M == store[1].ANNprPointMK
        keys == InsertedKeys(hist[1])
    IN  /\ M.k >= 2 /\ Len(keys) >= M.k + 2
        /\ ~NonDecreasing(keys)
        /\ keys[Len(keys)] > max_key(M)
        /\ \E i \in 1..M.k : keys[i] > max_key(M)

\* ------------------------------------------- two queries on two threads
\* two calls on the same tree, each on its own thread
InitConc ==
    /\ \E D \in Dims, seeds \in SeedSeqs(MaxPts) : TreeInit(D, seeds, 1)
    /\ ANNmaxPtsVisited \in {0, 1}
    /\ \E q1 \in QuerySeeds, q2 \in QuerySeeds, k1 \in {1, MaxK}, e1 \in Epsilons :
          /\ SeedLess(q1, q2)
          /\ call = [t \in Threads |-> IF t = 1 THEN NewCall(q1, k1, e1) ELSE NewCall(q2, 2, 1)]
    /\ store = [t \in Threads |-> NoStore]
    /\ hist = [t \in Threads |-> NoHist]

SpecConc == InitConc /\ [][Next]_vars

\* one step of a call that runs alone on a store of its own
StepAlone(fr, st) ==
    IF fr.pc = "start" THEN PriSearchStart(fr, st, NoHist)
    ELSE IF fr.pc = "loop" THEN PriSearchLoop(fr, st, NoHist, ANN_DIST_INF)
    ELSE IF fr.pc = "search" /\ ~NodeAt(root, fr.np).isLeaf THEN SplitSearch(fr, st, NoHist)
    ELSE IF fr.pc = "search" THEN LeafSearch(fr, st, NoHist, ANN_DIST_INF)
    ELSE PriSearchOut(fr, st, NoHist)

RECURSIVE RunAlone(_, _)
\* the frame a call ends with when it runs alone
RunAlone(fr, st) ==
    IF fr.pc = "done" THEN fr
    ELSE LET r == StepAlone(fr, st) IN RunAlone(r.fr, r.st)

\* what the query of thread t returns when it runs alone on the tree
AloneResult(t) == RunAlone(NewCall(call[t].q, call[t].k, call[t].eps), NoStore)

\* ------------------------------------------------------------- claim C3
\* C3: two queries interleaved in any way on two threads each return what
\* they return when run alone; each works on a store of its own, which
\* holds its own query point, error factor and set while it runs.
C3_ConcurrentQueriesIndependent ==
    /\ \A t1, t2 \in Threads : t1 # t2 => StoreOf(t1) # StoreOf(t2)
    /\ \A t \in Threads :
          /\ call[t].pc \in {"loop", "search", "out"}
                => /\ store[StoreOf(t)].ANNprQ = call[t].q
                   /\ store[StoreOf(t)].ANNprMaxErr = ANN_POW(1 + call[t].eps)
                   /\ store[StoreOf(t)].ANNprPointMK.k = call[t].k
          /\ Done(t) => LET alone == AloneResult(t)
                        IN  call[t].dd = alone.dd /\ call[t].nn_idx = alone.nn_idx

\* both queries are done, they differ, and each took steps while the other
\* was under way
C3_BothDoneInterleaved ==
    /\ Done(1) /\ Done(2)
    /\ hist[1].amid /\ hist[2].amid
    /\ call[1].q # call[2].q /\ call[1].k # call[2].k /\ call[1].eps # call[2].eps
    /\ call[1].nn_idx[1] # call[2].nn_idx[1]
    /\ hist[1].visits >= 2 /\ hist[2].visits >= 2

\* ------------------------------------------ the same query made again
\* the call returns and the thread makes the same call again; the new
\* call's store is a local in the memory the last one left
Again(t) ==
    /\ call[t].pc = "done"
    /\ hist[t].calls < MaxCalls
    /\ call' = [call EXCEPT ![t] = NewCall(call[t].q, call[t].k, call[t].eps)]
    /\ hist' = [hist EXCEPT ![t] =
                  [NoHist EXCEPT !.calls = hist[t].calls + 1,
                                 !.before = <<[dd |-> call[t].dd, nn_idx |-> call[t].nn_idx]>>]]
    /\ UNCHANGED <<treeVars, ANNmaxPtsVisited, store>>

NextTwice == Next \/ \E t \in Threads : Again(t)

SpecTwice == Init /\ [][NextTwice]_vars

\* the store a call's set-up makes when nothing was there before
FreshStore(t) ==
    PriSearchStart(NewCall(call[t].q, call[t].k, call[t].eps), NoStore, NoHist).st

\* ------------------------------------------------------------ claim C11
\* C11: the same query made twice on the same tree returns the same
\* distances and indices; no step changes the tree, the root bounding box
\* or the point array; and the second call's store after set-up is what
\* set-up makes from nothing, so nothing of the first call is left in it.
C11_Idempotence ==
    /\ [](\A t \in Threads :
            /\ (hist[t].calls >= 2 /\ Done(t))
                  => /\ call[t].dd = hist[t].before[1].dd
                     /\ call[t].nn_idx = hist[t].before[1].nn_idx
            /\ (hist[t].calls >= 2 /\ call[t].pc = "loop" /\ hist[t].pq_ext = 0)
                  => store[StoreOf(t)] = FreshStore(t))
    /\ [][UNCHANGED treeVars]_vars

\* a second call has ended, under a budget, after the first had visited
\* points and returned a data point
C11_SecondCallDone ==
    \E t \in Threads :
        /\ hist[t].calls = 2 /\ Done(t) /\ call[t].k >= 2
        /\ ANNmaxPtsVisited > 0
        /\ store[StoreOf(t)].ANNptsVisited > ANNmaxPtsVisited
        /\ hist[t].before[1].nn_idx[1] # ANN_NULL_IDX
        /\ hist[t].before[1].nn_idx[2] # ANN_NULL_IDX

\* ------------------------------------------------- boxes of the nodes
RECURSIVE CellFrom(_, _, _, _)
\* the box of the node at path below a node whose box is [lo, hi]: each
\* step to a child cuts the box at the node's cutting plane
CellFrom(node, path, lo, hi) ==
    IF path = <<>> THEN [lo |-> lo, hi |-> hi]
    ELSE IF Head(path) = ANN_LO
    THEN CellFrom(node.child[ANN_LO], Tail(path), lo,
                  [hi EXCEPT ![node.cut_dim + 1] = node.cut_val])
    ELSE CellFrom(node.child[ANN_HI], Tail(path),
                  [lo EXCEPT ![node.cut_dim + 1] = node.cut_val], hi)

\* squared distance from q to the box of the node at path
ExactBoxDist(q, path) ==
    LET c == CellFrom(root, path, bnd_box_lo, bnd_box_hi)
    IN  annBoxDistance(q, c.lo, c.hi, dim)

\* cutDiff and boxDiff of a query at a split node
CutDiff(node, q) == VAt(q, node.cut_dim) - node.cut_val
BoxDiff(node, q) ==
    LET raw == IF CutDiff(node, q) < 0
               THEN node.cd_bnds[ANN_LO] - VAt(q, node.cut_dim)
               ELSE VAt(q, node.cut_dim) - node.cd_bnds[ANN_HI]
    IN  IF raw > 0 THEN raw ELSE 0

\* ------------------------------------------------------------ claim C12
\* C12 as stated: at a split node reached with boxDist equal to the
\* squared distance from the query to its box, the priority enqueued for
\* the farther child is boxDist - cutDiff^2 + boxDiff^2, and it equals the
\* squared distance from the query to the farther child's box.
C12_FartherDistAsStated ==
    \A t \in Threads : \A i \in 1..Len(hist[t].enq) :
        LET e == hist[t].enq[i]
            node == NodeAt(root, e.np)
            cd == CutDiff(node, call[t].q)
            bx == BoxDiff(node, call[t].q)
        IN  e.box_dist = ExactBoxDist(call[t].q, e.np)
            => /\ e.new_dist = e.box_dist - cd * cd + bx * bx
               /\ e.new_dist = ExactBoxDist(call[t].q, e.far)

\* C12 as amended: at a split node reached with boxDist equal to the
\* squared distance from the query to its box, the priority enqueued for
\* the farther child is boxDist - boxDiff^2 + cutDiff^2, and it equals the
\* squared distance from the query to the farther child's box.
C12_FartherDistExact ==
    \A t \in Threads : \A i \in 1..Len(hist[t].enq) :
        LET e == hist[t].enq[i]
            node == NodeAt(root, e.np)
            cd == CutDiff(node, call[t].q)
            bx == BoxDiff(node, call[t].q)
        IN  e.box_dist = ExactBoxDist(call[t].q, e.np)
            => /\ e.new_dist = e.box_dist - bx * bx + cd * cd
               /\ e.new_dist = ExactBoxDist(call[t].q, e.far)

\* a farther child was enqueued for a query outside the node's bounds
\* along the cut, at a node reached with the distance to its box
C12_EnqueuedFromOutside ==
    \E t \in Threads : \E i \in 1..Len(hist[t].enq) :
        LET e == hist[t].enq[i]
            node == NodeAt(root, e.np)
            cd == CutDiff(node, call[t].q)
            bx == BoxDiff(node, call[t].q)
        IN  /\ e.box_dist = ExactBoxDist(call[t].q, e.np)
            /\ bx > 0 /\ cd * cd # bx * bx
            /\ e.np # <<>> /\ call[t].k >= 1

\* ------------------------------------------------------------ claim C13
\* d is at least 0 and at most the squared distance from q to every data
\* point stored beneath the node at path
LowerBound(q, d, path) ==
    /\ 0 <= d
    /\ \A idx \in PointsBelow(NodeAt(root, path)) : d <= TrueDist(q, idx)

\* C13: in every state of a query, every entry (d, node) held in the box
\* queue and every (boxDist, node) passed to a split or leaf handler has
\* 0 <= d <= the squared distance from the query to every data point
\* stored beneath the node.
C13_LowerBound ==
    \A t \in Threads :
        call[t].pc \in {"loop", "search", "out"} =>
            /\ \A i \in 1..Len(store[StoreOf(t)].ANNprBoxPQ.pq) :
                  LET e == store[StoreOf(t)].ANNprBoxPQ.pq[i]
                  IN  LowerBound(call[t].q, e.key, e.info)
            /\ \A i \in 1..Len(hist[t].handled) :
                  LET h == hist[t].handled[i]
                  IN  LowerBound(call[t].q, h.box_dist, h.np)

\* two boxes wait in the queue at different positive distances, and a
\* leaf below the root has been searched at a positive distance
C13_PositiveBounds ==
    \E t \in Threads :
        LET pq == store[StoreOf(t)].ANNprBoxPQ.pq
        IN  /\ call[t].k >= 1 /\ Len(pq) >= 2
            /\ pq[1].key > 0 /\ pq[2].key > 0 /\ pq[1].key # pq[2].key
            /\ \E i \in 1..Len(hist[t].handled) :
                  /\ hist[t].handled[i].leaf /\ hist[t].handled[i].box_dist > 0
                  /\ Len(hist[t].handled[i].np) >= 2

\* ------------------------------------------------------------ claim C14
\* C14: within a query the box distances of successive extractions never
\* decrease: every farther child is enqueued with a priority at least the
\* box distance of the extraction during which it is enqueued, so the
\* queue never holds an entry below a priority already extracted.
C14_ExtractionsNonDecreasing ==
    \A t \in Threads :
        /\ NonDecreasing(hist[t].extracted)
        /\ hist[t].low_ins = 0
        /\ \A i \in 1..Len(hist[t].enq) :
              /\ hist[t].enq[i].new_dist >= hist[t].enq[i].box_dist
              /\ \E j \in 1..Len(hist[t].ext) :
                    /\ hist[t].ext[j].key = hist[t].enq[i].box_dist
                    /\ Len(hist[t].ext[j].np) <= Len(hist[t].enq[i].np)
                    /\ SubSeq(hist[t].enq[i].np, 1, Len(hist[t].ext[j].np)) = hist[t].ext[j].np
        /\ (call[t].pc \in {"loop", "search", "out"} /\ hist[t].extracted # <<>>)
              => \A i \in 1..Len(store[StoreOf(t)].ANNprBoxPQ.pq) :
                    store[StoreOf(t)].ANNprBoxPQ.pq[i].key >= LastExtracted(hist[t])

\* three boxes were extracted at growing distances, the later ones being
\* farther children enqueued during earlier extractions
C14_GrowingExtractions ==
    \E t \in Threads :
        /\ call[t].k >= 1 /\ Len(hist[t].extracted) >= 3
        /\ hist[t].extracted[1] < hist[t].extracted[2]
        /\ hist[t].extracted[2] < hist[t].extracted[3]
        /\ Len(hist[t].enq) >= 2

\* ------------------------------------------------------------ claim C15
\* the nearer child of a split node: low when cutDiff < 0, high otherwise
NearerChild(node, q) == IF CutDiff(node, q) < 0 THEN ANN_LO ELSE ANN_HI

\* the leaves searched and the extractions that passed the termination test
LeavesHandled(hs) == Cardinality({i \in 1..Len(hs.handled) : hs.handled[i].leaf})
PassedExtractions(hs) == Cardinality({i \in 1..Len(hs.ext) : hs.ext[i].pass})

\* C15: at every split node the nearer child (low when cutDiff < 0, high
\* otherwise) is handled next with the same boxDist and is never put into
\* the queue; every handling that does not follow a split node is that of
\* an extracted node with its key; and each extraction that passes the
\* termination test is followed by the scan of exactly one leaf, which is
\* over before the next extraction.
C15_NearerChildDescent ==
    \A t \in Threads :
        LET hs == hist[t]
            q == call[t].q
        IN  /\ \A i \in 1..Len(hs.handled) :
                  LET h == hs.handled[i]
                  IN  IF i > 1 /\ ~hs.handled[i - 1].leaf
                      THEN LET p == hs.handled[i - 1]
                           IN  /\ h.np = Append(p.np, NearerChild(NodeAt(root, p.np), q))
                               /\ h.box_dist = p.box_dist
                      ELSE \E j \in 1..Len(hs.ext) :
                              /\ hs.ext[j].pass
                              /\ hs.ext[j].np = h.np /\ hs.ext[j].key = h.box_dist
                              /\ j = 1 + Cardinality({m \in 1..(i - 1) : hs.handled[m].leaf})
            /\ \A i \in 1..Len(hs.enq) :
                  hs.enq[i].far # Append(hs.enq[i].np, NearerChild(NodeAt(root, hs.enq[i].np), q))
            /\ call[t].pc = "search"
                  => /\ LeavesHandled(hs) = PassedExtractions(hs) - 1
                     /\ call[t].box_dist = LastExtracted(hs)
            /\ call[t].pc \in {"loop", "out", "done"}
                  => LeavesHandled(hs) = PassedExtractions(hs)

\* an extraction went down two split nodes to a leaf, once with the
\* query on the cutting plane, and a later extraction reached another leaf
C15_TwoDescents ==
    \E t \in Threads :
        LET hs == hist[t]
        IN  /\ call[t].k >= 1 /\ Len(hs.handled) >= 4
            /\ ~hs.handled[1].leaf /\ ~hs.handled[2].leaf /\ hs.handled[3].leaf
            /\ hs.handled[4].leaf
            /\ \E i \in 1..2 : CutDiff(NodeAt(root, hs.handled[i].np), call[t].q) = 0
            /\ Len(hs.enq) >= 2

\* ------------------------------------------------------------ claim C16
RECURSIVE BucketSum(_, _)
\* the sizes of the buckets of the leaves among the first i nodes handled
BucketSum(handled, i) ==
    IF i = 0 THEN 0
    ELSE BucketSum(handled, i - 1)
         + (IF handled[i].leaf THEN NodeAt(root, handled[i].np).n_pts ELSE 0)

\* C16: with a budget B > 0 no extraction is made in a state where the
\* visited count is greater than B, while the loop goes on at a count
\* equal to B (it leaves boxes in the queue only at a count above B); the
\* count is the sum of the full bucket sizes of the leaves scanned, so it
\* ends at most one bucket above B; with B = 0 the loop never ends on the
\* count.
C16_BudgetExitRule ==
    \A t \in Threads :
        LET hs == hist[t]
            st == store[StoreOf(t)]
            B == ANNmaxPtsVisited
        IN  call[t].pc \in {"loop", "search", "out"} =>
            /\ B > 0 => \A i \in 1..Len(hs.ext) : hs.ext[i].cnt <= B
            /\ (call[t].pc = "out" /\ hs.stop = "cond" /\ non_empty(st.ANNprBoxPQ))
                  => B > 0 /\ st.ANNptsVisited > B
            /\ st.ANNptsVisited = BucketSum(hs.handled, Len(hs.handled))
            /\ B > 0 => st.ANNptsVisited <= B + LargestBucket(root)
            /\ (B = 0 /\ hs.stop = "cond") => ~non_empty(st.ANNprBoxPQ)

\* under a budget B an extraction was made at a count equal to B, a
\* bucket with a point abandoned early was counted in full, and the loop
\* then ended on the count with a box left
C16_ContinuedAtBudget ==
    \E t \in Threads :
        LET hs == hist[t]
            st == store[StoreOf(t)]
        IN  /\ call[t].pc = "out" /\ call[t].k >= 1 /\ ANNmaxPtsVisited > 0
            /\ \E i \in 1..Len(hs.ext) : hs.ext[i].cnt = ANNmaxPtsVisited /\ hs.ext[i].pass
            /\ \E i \in 1..Len(hs.offered) : ~hs.offered[i].ins
            /\ hs.stop = "cond" /\ non_empty(st.ANNprBoxPQ)
            /\ st.ANNptsVisited > ANNmaxPtsVisited

\* ------------------------------------------- a leaf scanned on its own
\* a vector with one coordinate in each chunk of the scan: v[c] on the
\* first axis of chunk c
ChunkVec(v) ==
    [i \in 1..((ScanChunks - 1) * ChunkLen + 1) |->
        IF (i - 1) % ChunkLen = 0 THEN v[((i - 1) \div ChunkLen) + 1] ELSE 0]

\* data points whose distance from the origin grows in different chunks
ScanVecs == {ChunkVec(<<2, 0, 0, 0>>), ChunkVec(<<0, 1, 1, 0>>),
             ChunkVec(<<0, 0, 0, 2>>), ChunkVec(<<1, 0, 0, 1>>)}
ScanQueries == {ChunkVec(<<0, 0, 0, 0>>), ChunkVec(<<1, 0, 0, 1>>)}

\* a tree of one leaf over 1..MaxPts distinct points of ScanDim dimensions, and a
\* call that has extracted the root and is about to search it, its set
\* still empty
InitScan ==
    /\ dim = ScanDim
    /\ \E n \in 1..MaxPts : \E P \in [1..n -> ScanVecs] :
          /\ \A i, j \in 1..n : i # j => P[i] # P[j]
          /\ n_pts = n
          /\ pts = P
          /\ root = LeafNode([i \in 1..n |-> i - 1])
    /\ bnd_box_lo = <<>> /\ bnd_box_hi = <<>>
    /\ ANNmaxPtsVisited = 0
    /\ \E q \in ScanQueries, k \in 1..MaxK :
          /\ call = [t \in Threads |->
                       IF t = 1 THEN [NewCall(q, k, 0) EXCEPT !.pc = "search"] ELSE IdleCall]
          /\ store = [t \in Threads |->
                        IF t = 1
                        THEN [PriSearchStart(NewCall(q, k, 0), NoStore, NoHist).st
                                 EXCEPT !.ANNprBoxPQ = PqNew(n_pts)]
                        ELSE NoStore]
    /\ hist = [t \in Threads |-> NoHist]

\* what earlier leaves left in the set: at most two points, found at
\* distances kv (given in ascending order, each set is made in one way)
PriorInsert ==
    /\ call[1].pc = "search"
    /\ store[1].ANNprPointMK.n < store[1].ANNprPointMK.k
    /\ store[1].ANNprPointMK.n < 2
    /\ \E kv \in 0..(MaxKey + 1) :
          /\ \A i \in 1..store[1].ANNprPointMK.n : store[1].ANNprPointMK.mk[i].key <= kv
          /\ store' = [store EXCEPT ![1].ANNprPointMK =
                          MkInsert(@, kv, n_pts + store[1].ANNprPointMK.n)]
    /\ UNCHANGED <<treeVars, ANNmaxPtsVisited, call, hist>>

NextScan == PriorInsert \/ Leaf(1)

SpecScan == InitScan /\ [][NextScan]_vars

RECURSIVE FullDistRange(_, _, _, _)
\* the part of the squared distance between Q and the ScanDim coordinates
\* read from base on that axes a..b-1 give
FullDistRange(Q, base, a, b) ==
    IF b <= a THEN 0
    ELSE IF b = a + 1
    THEN (VAt(Q, a) - ReadPts(pts, dim, base + a)) * (VAt(Q, a) - ReadPts(pts, dim, base + a))
    ELSE LET m == (a + b) \div 2
         IN  FullDistRange(Q, base, a, m) + FullDistRange(Q, base, m, b)

RECURSIVE FullScan(_, _, _, _, _)
\* the plain scan of a bucket from position i on: every point's full
\* distance is computed and inserted if it does not exceed max_key()
FullScan(node, i, M, Q, log) ==
    IF i >= node.n_pts THEN [M |-> M, log |-> log]
    ELSE LET idx == At(node.bkt, i)
             full == FullDistRange(Q, PointBase(idx), 0, ScanDim)
             ins == full <= max_key(M)
         IN  FullScan(node, i + 1, IF ins THEN MkInsert(M, full, idx) ELSE M, Q,
                      Append(log, [idx |-> idx, dist |-> full, ins |-> ins,
                                   bound |-> max_key(M)]))

\* ------------------------------------------------------------ claim C17
\* C17: the scan of a leaf with the early exit checked after each chunk
\* of 32 axes leaves the set as the plain scan leaves it; a point is
\* inserted iff its full squared distance is <= max_key() when it is
\* scanned, then with that distance; and the cached bound of every check
\* is max_key() at that moment.
C17_ChunkedScanEquivalent ==
    \A t \in Threads :
        LET hs == hist[t]
            n == Len(hs.handled)
        IN  (call[t].pc = "loop" /\ call[t].k >= 1 /\ n >= 1 /\ hs.handled[n].leaf) =>
            LET node == NodeAt(root, hs.handled[n].np)
                ref == FullScan(node, 0, hs.mk_in, call[t].q, <<>>)
                first == Len(hs.offered) - node.n_pts
            IN  /\ store[StoreOf(t)].ANNprPointMK = ref.M
                /\ \A i \in 1..node.n_pts :
                      LET got == hs.offered[first + i]
                      IN  /\ got.idx = ref.log[i].idx
                          /\ got.ins = ref.log[i].ins
                          /\ got.bound = ref.log[i].bound
                          /\ got.ins => got.dist = ref.log[i].dist

\* a bucket was scanned in which one point was abandoned after the second
\* or third chunk, one was inserted at a distance equal to the bound, and
\* one insert lowered the bound for the point after it
C17_AbandonedMidScan ==
    \E t \in Threads :
        LET hs == hist[t]
        IN  /\ call[t].pc = "loop" /\ call[t].k >= 1
            /\ \E i \in 1..Len(hs.offered) :
                  ~hs.offered[i].ins /\ hs.offered[i].d \in {1, 2}
            /\ \E i \in 1..Len(hs.offered) :
                  hs.offered[i].ins /\ hs.offered[i].dist = hs.offered[i].bound
            /\ \E i \in 1..(Len(hs.offered) - 1) :
                  hs.offered[i].ins /\ hs.offered[i + 1].bound < hs.offered[i].bound

\* ------------------------------------------------------------ claim C18
\* C18: on a tree over n_pts >= 1 points the box queue never holds more
\* than n_pts entries, the capacity it was created with; no trivial
\* (empty) child is enqueued, and the subtrees in the queue each hold a
\* point and are pairwise disjoint.
C18_QueueWithinCapacity ==
    \A t \in Threads :
        (n_pts >= 1 /\ call[t].pc \in {"loop", "search", "out"}) =>
            LET Q == store[StoreOf(t)].ANNprBoxPQ
                below(i) == PointsBelow(NodeAt(root, Q.pq[i].info))
            IN  /\ Q.max_size = n_pts
                /\ Len(Q.pq) <= Q.max_size
                /\ \A i \in 1..Len(Q.pq) :
                      /\ NodeAt(root, Q.pq[i].info) # KD_TRIVIAL
                      /\ below(i) # {}
                /\ \A i, j \in 1..Len(Q.pq) : i # j => below(i) \cap below(j) = {}
                /\ \A i \in 1..Len(hist[t].enq) :
                      NodeAt(root, hist[t].enq[i].far) # KD_TRIVIAL

\* a split node with a trivial farther child was searched and nothing was
\* enqueued for it, while two other subtrees wait in the queue
C18_TrivialChildSkipped ==
    \E t \in Threads :
        /\ n_pts >= 1 /\ call[t].k >= 1 /\ call[t].pc \in {"loop", "search"}
        /\ Len(store[StoreOf(t)].ANNprBoxPQ.pq) >= 2
        /\ \E i \in 1..Len(hist[t].handled) :
              LET h == hist[t].handled[i]
                  node == NodeAt(root, h.np)
              IN  /\ ~h.leaf
                  /\ node.child[FarSide(node, call[t].q)] = KD_TRIVIAL
                  /\ \A j \in 1..Len(hist[t].enq) : hist[t].enq[j].np # h.np

\* ------------------------------------------------- a call that is run
RECURSIVE NodeCount(_)
\* the number of nodes of a tree
NodeCount(node) ==
    IF node.isLeaf THEN 1
    ELSE 1 + NodeCount(node.child[ANN_LO]) + NodeCount(node.child[ANN_HI])

RECURSIVE Levels(_)
\* the number of levels of a tree: 1 for a leaf
Levels(node) ==
    IF node.isLeaf THEN 1
    ELSE LET a == Levels(node.child[ANN_LO])
             b == Levels(node.child[ANN_HI])
         IN  1 + (IF a >= b THEN a ELSE b)

\* one query on one thread, on the deepest trees (MaxPts points, buckets
\* of one point), with and without budget
InitFair ==
    /\ \E D \in Dims, seeds \in SeedSeqs(MaxPts) : TreeInit(D, seeds, 1)
    /\ ANNmaxPtsVisited \in {0, 1}
    /\ \E qs \in QuerySeeds, k \in {0, 1, MaxK}, eps \in Epsilons :
          call = [t \in Threads |->
                    IF t = 1 THEN NewCall(qs, k, eps) ELSE IdleCall]
    /\ store = [t \in Threads |-> NoStore]
    /\ hist = [t \in Threads |-> NoHist]

\* the thread that made the call goes on executing it
FairSpec == InitFair /\ [][Next]_vars /\ WF_vars(Next)

\* what is left to do in a call: the nodes not yet handled, then the
\* place in the call
Variant(t) ==
    LET left == NodeCount(root) - Len(hist[t].handled)
    IN  IF call[t].pc = "start" THEN 4 * left + 3
        ELSE IF call[t].pc = "loop" THEN 4 * left + 2
        ELSE IF call[t].pc = "search" THEN 4 * left + 1
        ELSE IF call[t].pc = "out" THEN 1
        ELSE 0

\* no node is enqueued twice or handled twice, the loop has made no more
\* extractions than the tree has nodes, and no handler call is nested
\* deeper than the tree has levels
VisitsBounded(t) ==
    LET hs == hist[t]
    IN  /\ \A i, j \in 1..Len(hs.enq) : i # j => hs.enq[i].far # hs.enq[j].far
        /\ \A i \in 1..Len(hs.enq) : hs.enq[i].far # <<>>
        /\ \A i, j \in 1..Len(hs.handled) : i # j => hs.handled[i].np # hs.handled[j].np
        /\ hs.pq_ext <= NodeCount(root)
        /\ hs.pq_ins <= NodeCount(root)
        /\ \A i \in 1..Len(hs.handled) : Len(hs.handled[i].np) + 1 <= Levels(root)

\* ------------------------------------------------------------ claim C19
\* C19: every query ends, for every tree, k, eps and budget (0 included):
\* each node is enqueued at most once and handled at most once, the loop
\* runs at most as many iterations as the tree has nodes, and the descent
\* is at most as deep as the tree.
C19_Terminates ==
    /\ [](\A t \in Threads : VisitsBounded(t) /\ Variant(t) >= 0)
    /\ [][\A t \in Threads : call[t]' # call[t] => Variant(t)' < Variant(t)]_vars
    /\ \A t \in Threads : (call[t].pc = "start") ~> Done(t)

\* a query without budget has ended after handling every node of a tree
\* of three levels
C19_EndedAfterAllNodes ==
    \E t \in Threads :
        /\ Done(t) /\ ANNmaxPtsVisited = 0 /\ call[t].k >= 1
        /\ Levels(root) >= 3
        /\ Len(hist[t].handled) = NodeCount(root)

\* ------------------------------------------------------------ claim C20
RECURSIVE LeafBuckets(_)
\* the buckets of the leaves of a tree, one after the other
LeafBuckets(node) ==
    IF node.isLeaf THEN node.bkt
    ELSE LeafBuckets(node.child[ANN_LO]) \o LeafBuckets(node.child[ANN_HI])

\* every point index occurs in exactly one leaf bucket, once
OneLeafPerPoint ==
    LET all == LeafBuckets(root)
    IN  /\ Range(all) = AllPoints
        /\ Len(all) = n_pts

\* the leaves searched so far in a call
LeafVisits(hs) == {i \in 1..Len(hs.handled) : hs.handled[i].leaf}

\* C20: in a tree where every point index occurs in exactly one leaf
\* bucket, each leaf is scanned at most once per query, each point index is
\* offered to the set of the k nearest at most once, the set holds no index
\* twice, and the indices a finished query returns, the sentinel apart, are
\* pairwise distinct.
C20_NoDuplicateResults ==
    \A t \in Threads :
        OneLeafPerPoint =>
            LET hs == hist[t]
                held == store[StoreOf(t)].ANNprPointMK.mk
                out == call[t].nn_idx
            IN  /\ \A i, j \in LeafVisits(hs) :
                      i # j => hs.handled[i].np # hs.handled[j].np
                /\ \A i, j \in 1..Len(hs.offered) :
                      i # j => hs.offered[i].idx # hs.offered[j].idx
                /\ \A i, j \in 1..Len(held) :
                      i # j => held[i].info # held[j].info
                /\ Done(t) =>
                      \A i, j \in 1..Len(out) :
                          (i # j /\ out[i] # ANN_NULL_IDX) => out[i] # out[j]

\* a finished query that searched at least two leaves and returned at
\* least two point indices
C20_SeveralLeavesSeveralResults ==
    \E t \in Threads :
        /\ OneLeafPerPoint /\ Done(t)
        /\ Cardinality(LeafVisits(hist[t])) >= 2
        /\ Len(call[t].nn_idx) >= 2
        /\ call[t].nn_idx[1] \in AllPoints /\ call[t].nn_idx[2] \in AllPoints

====
